---- MODULE Spec2Model ----
(***************************************************************************)
(* src/sokol/c/sokol_defines.h of kc85.zig, read as the C preprocessor     *)
(* reads it: one directive per line, a macro table, a stack of open        *)
(* conditional sections and the set of headers included so far.            *)
(*                                                                         *)
(* The input of the file is the set of platform identifiers the compiler   *)
(* predefines (_WIN32, __APPLE__, __ANDROID__).  The macro table tracks    *)
(* what the directives of this file define; the text of the system header  *)
(* <TargetConditionals.h> is not part of the repository, so line 15 is     *)
(* modelled by recording the inclusion.                                    *)
(***************************************************************************)
EXTENDS Naturals, Sequences, FiniteSets, Bags

VARIABLES
    predef,    \* macros predefined by the compiler (tested on lines 1, 4, 8, 14)
    macros,    \* the macro table: predef plus what lines 2-11 have defined
    included,  \* headers included so far (line 15)
    cond,      \* stack of open #if sections: [active, taken] per section
    ndefs,     \* bag of macro names: #define directives executed per name
    pc         \* the line to process next, LastLine + 1 at end of file

vars == <<predef, macros, included, cond, ndefs, pc>>

(* The file has 16 lines; the last one has no trailing newline. *)
LastLine == 16

(* The identifiers tested by the file's #if / #elif lines (1, 4, 8, 14). *)
PlatformIds == {"_WIN32", "__APPLE__", "__ANDROID__"}

(* A macro definition: name, parameter list, replacement list (tokens). *)
Macro(name, params, body) == [name |-> name, params |-> params, body |-> body]

(* A compiler-predefined platform identifier: object-like, expands to 1. *)
Predefined(id) == Macro(id, <<>>, <<"1">>)

(* The preprocessor's state as one value, for the pure line operators. *)
S == [macros |-> macros, included |-> included, cond |-> cond,
      ndefs |-> ndefs, pc |-> pc]

(* State at the first line of the file, given the predefined macros. *)
Start(pre) == [macros |-> pre, included |-> {}, cond |-> <<>>,
               ndefs |-> EmptyBag, pc |-> 1]

------------------------------------------------------------------------------
(* Directive semantics, as used by the lines of the file. *)

(* defined(X) *)
Defined(s, name) == \E m \in s.macros : m.name = name

(* A line takes effect only when every open conditional group is active. *)
Active(s) == \A i \in DOMAIN s.cond : s.cond[i].active

Skip(s) == [s EXCEPT !.pc = @ + 1]

(* #if c : opens a section; inside a skipped group nothing is evaluated. *)
If(s, c) ==
    LET g == IF Active(s) THEN [active |-> c, taken |-> c]
                          ELSE [active |-> FALSE, taken |-> TRUE]
    IN  [s EXCEPT !.cond = Append(@, g), !.pc = @ + 1]

(* #elif c : taken only when no earlier group of the section was taken. *)
Elif(s, c) ==
    LET top == s.cond[Len(s.cond)]
        g   == IF top.taken THEN [active |-> FALSE, taken |-> TRUE]
                            ELSE [active |-> c, taken |-> c]
    IN  [s EXCEPT !.cond[Len(s.cond)] = g, !.pc = @ + 1]

(* #else : taken exactly when no earlier group of the section was taken. *)
Else(s) ==
    LET top == s.cond[Len(s.cond)]
    IN  [s EXCEPT !.cond[Len(s.cond)] = [active |-> ~top.taken, taken |-> TRUE],
                  !.pc = @ + 1]

(* #endif : closes the innermost section. *)
Endif(s) == [s EXCEPT !.cond = SubSeq(@, 1, Len(@) - 1), !.pc = @ + 1]

(* #define name(params) body : replaces any earlier definition of name. *)
Define(s, name, params, body) ==
    IF Active(s)
    THEN [s EXCEPT !.macros = {m \in @ : m.name # name}
                                \cup {Macro(name, params, body)},
                   !.ndefs = @ (+) SetToBag({name}),
                   !.pc = @ + 1]
    ELSE Skip(s)

(* #include <header> *)
Include(s, header) ==
    IF Active(s) THEN [s EXCEPT !.included = @ \cup {header}, !.pc = @ + 1]
                 ELSE Skip(s)

------------------------------------------------------------------------------
(* The sixteen lines of sokol_defines.h. *)

(* Line 1 with the negation dropped. *)
Line01_NoNegation(s) == If(s, Defined(s, "__ANDROID__"))
Line01(s) == If(s, ~Defined(s, "__ANDROID__"))
Line02(s) == Define(s, "SOKOL_NO_ENTRY", <<>>, <<>>)
Line03(s) == Endif(s)
(* Line 4 yielding to __APPLE__ when both identifiers are defined. *)
Line04_AppleFirst(s) == If(s, Defined(s, "_WIN32") /\ ~Defined(s, "__APPLE__"))
Line04(s) == If(s, Defined(s, "_WIN32"))
(* Line 5 deleted. *)
Line05_Missing(s) == Skip(s)
Line05(s) == Define(s, "SOKOL_WIN32_FORCE_MAIN", <<>>, <<>>)
(* Line 6 defining a macro outside the file's six names. *)
Line06_OtherName(s) == Define(s, "SOKOL_IMPL", <<>>, <<>>)
Line06(s) == Define(s, "SOKOL_D3D11", <<>>, <<>>)
(* Line 7 with the parameter left out of the replacement list. *)
Line07_ArgDropped(s) == Define(s, "SOKOL_LOG", <<"msg">>,
                               <<"OutputDebugStringA", "(", ")">>)
Line07(s) == Define(s, "SOKOL_LOG", <<"msg">>,
                    <<"OutputDebugStringA", "(", "msg", ")">>)
(* Line 8 also testing __ANDROID__. *)
Line08_AndroidToo(s) ==
    Elif(s, Defined(s, "__APPLE__") /\ ~Defined(s, "__ANDROID__"))
Line08(s) == Elif(s, Defined(s, "__APPLE__"))
(* Line 9 defining the OpenGL macro (copied from line 11). *)
Line09_Glcore(s) == Define(s, "SOKOL_GLCORE33", <<>>, <<>>)
Line09(s) == Define(s, "SOKOL_METAL", <<>>, <<>>)
(* Line 10 deleted: line 11 then belongs to the #elif group. *)
Line10_Missing(s) == Skip(s)
Line10(s) == Else(s)
(* Line 11 deleted: the #else group is empty. *)
Line11_Missing(s) == Skip(s)
Line11(s) == Define(s, "SOKOL_GLCORE33", <<>>, <<>>)
Line12(s) == Endif(s)
Line13(s) == Skip(s)
(* Line 14 testing "not Windows" instead of __APPLE__. *)
Line14_NotWin32(s) == If(s, ~Defined(s, "_WIN32"))
Line14(s) == If(s, Defined(s, "__APPLE__"))
Line15(s) == Include(s, "TargetConditionals.h")
Line16(s) == Endif(s)

(* The expansion of an invocation of the function-like macro m: every        *)
(* parameter in the replacement list is replaced by its argument.           *)
Expand(m, args) ==
    [i \in DOMAIN m.body |->
        IF \E k \in DOMAIN m.params : m.params[k] = m.body[i]
        THEN args[CHOOSE k \in DOMAIN m.params : m.params[k] = m.body[i]]
        ELSE m.body[i]]

(* The line at s.pc. *)
Exec(s) ==
    CASE s.pc = 1  -> Line01(s)
      [] s.pc = 2  -> Line02(s)
      [] s.pc = 3  -> Line03(s)
      [] s.pc = 4  -> Line04(s)
      [] s.pc = 5  -> Line05(s)
      [] s.pc = 6  -> Line06(s)
      [] s.pc = 7  -> Line07(s)
      [] s.pc = 8  -> Line08(s)
      [] s.pc = 9  -> Line09(s)
      [] s.pc = 10 -> Line10(s)
      [] s.pc = 11 -> Line11(s)
      [] s.pc = 12 -> Line12(s)
      [] s.pc = 13 -> Line13(s)
      [] s.pc = 14 -> Line14(s)
      [] s.pc = 15 -> Line15(s)
      [] s.pc = 16 -> Line16(s)

(* One whole pass over the file, from state s to the end of the file. *)
RECURSIVE Preprocess(_)
Preprocess(s) == IF s.pc > LastLine THEN s ELSE Preprocess(Exec(s))

------------------------------------------------------------------------------
(* The state machine: one action per line. *)

Init ==
    /\ predef \in SUBSET {Predefined(id) : id \in PlatformIds}
    /\ macros = predef
    /\ included = {}
    /\ cond = <<>>
    /\ ndefs = EmptyBag
    /\ pc = 1

Apply(t) ==
    /\ macros' = t.macros
    /\ included' = t.included
    /\ cond' = t.cond
    /\ ndefs' = t.ndefs
    /\ pc' = t.pc
    /\ UNCHANGED predef

IfNotAndroid      == pc = 1  /\ Apply(Line01(S))
DefineNoEntry     == pc = 2  /\ Apply(Line02(S))
EndifNotAndroid   == pc = 3  /\ Apply(Line03(S))
IfWin32           == pc = 4  /\ Apply(Line04(S))
DefineForceMain   == pc = 5  /\ Apply(Line05(S))
DefineD3D11       == pc = 6  /\ Apply(Line06(S))
DefineLog         == pc = 7  /\ Apply(Line07(S))
ElifApple         == pc = 8  /\ Apply(Line08(S))
DefineMetal       == pc = 9  /\ Apply(Line09(S))
ElseOther         == pc = 10 /\ Apply(Line10(S))
DefineGlcore33    == pc = 11 /\ Apply(Line11(S))
EndifBackend      == pc = 12 /\ Apply(Line12(S))
FixmeComment      == pc = 13 /\ Apply(Line13(S))
IfApple           == pc = 14 /\ Apply(Line14(S))
IncludeTargetConditionals == pc = 15 /\ Apply(Line15(S))
EndifApple        == pc = 16 /\ Apply(Line16(S))

Next ==
    \/ IfNotAndroid
    \/ DefineNoEntry
    \/ EndifNotAndroid
    \/ IfWin32
    \/ DefineForceMain
    \/ DefineD3D11
    \/ DefineLog
    \/ ElifApple
    \/ DefineMetal
    \/ ElseOther
    \/ DefineGlcore33
    \/ EndifBackend
    \/ FixmeComment
    \/ IfApple
    \/ IncludeTargetConditionals
    \/ EndifApple

Spec == Init /\ [][Next]_vars

------------------------------------------------------------------------------
(* Vocabulary of the properties. *)

(* The platform identifier id is predefined for this compilation. *)
Target(id) == Predefined(id) \in predef

(* The macro name is defined at the current line. *)
Has(name) == Defined(S, name)

(* The whole file has been processed. *)
Done == pc > LastLine

Backends == {"SOKOL_D3D11", "SOKOL_METAL", "SOKOL_GLCORE33"}

SokolMacros == Backends \cup {"SOKOL_NO_ENTRY", "SOKOL_WIN32_FORCE_MAIN", "SOKOL_LOG"}

Selected(s) == {b \in Backends : Defined(s, b)}

(* Every set of predefined platform identifiers. *)
Inputs == SUBSET {Predefined(id) : id \in PlatformIds}

SameOn(pre1, pre2, ids) ==
    \A id \in ids : (Predefined(id) \in pre1) <=> (Predefined(id) \in pre2)

(* What the backend decision produces: everything but SOKOL_NO_ENTRY. *)
BackendView(s) ==
    [selected  |-> Selected(s),
     forcemain |-> Defined(s, "SOKOL_WIN32_FORCE_MAIN"),
     log       |-> {m \in s.macros : m.name = "SOKOL_LOG"},
     included  |-> s.included]

(* Arguments tried in invocations of SOKOL_LOG. *)
LogArgs == {"str", "buf"}

------------------------------------------------------------------------------
(* C1: for every combination of _WIN32, __APPLE__ and __ANDROID__, once the  *)
(* file is processed exactly one of SOKOL_D3D11, SOKOL_METAL and             *)
(* SOKOL_GLCORE33 is defined and the other two are absent.                   *)
C1_ExactlyOneBackend == Done => Cardinality(Selected(S)) = 1

C1_Witness ==
    Done /\ Target("__APPLE__") /\ ~Target("_WIN32") /\ Selected(S) = {"SOKOL_METAL"}

(* C2: the backend equals the lookup table: SOKOL_D3D11 when _WIN32 is       *)
(* defined, SOKOL_METAL when __APPLE__ is defined and _WIN32 is not,         *)
(* SOKOL_GLCORE33 when neither is defined.                                   *)
C2_BackendTable ==
    Done => Selected(S) =
              IF Target("_WIN32") THEN {"SOKOL_D3D11"}
              ELSE IF Target("__APPLE__") THEN {"SOKOL_METAL"}
              ELSE {"SOKOL_GLCORE33"}

C2_Witness ==
    Done /\ Target("_WIN32") /\ ~Target("__APPLE__") /\ Has("SOKOL_D3D11")

(* C3 as stated: when neither _WIN32 nor __APPLE__ is defined no branch of   *)
(* the backend selection is taken and no backend macro is defined.           *)
C3_NoFallback ==
    (pc > 11 /\ ~Target("_WIN32") /\ ~Target("__APPLE__"))
        => (Selected(S) = {} /\ BagToSet(ndefs) \cap Backends = {})

(* C3 amended: the selection has a fallback: when neither _WIN32 nor         *)
(* __APPLE__ is defined the #else group of line 10 is the one processed,     *)
(* and it defines SOKOL_GLCORE33 and nothing else of the three.              *)
C3_FallbackTaken ==
    (~Target("_WIN32") /\ ~Target("__APPLE__"))
        => /\ pc = 11 => Active(S)
           /\ pc \in {5, 6, 7, 9} => ~Active(S)
           /\ pc > 11 => (Has("SOKOL_GLCORE33") /\ ~Has("SOKOL_D3D11")
                                                /\ ~Has("SOKOL_METAL"))

C3_Witness ==
    /\ pc = 12 /\ ~Target("_WIN32") /\ ~Target("__APPLE__")
    /\ Active(S) /\ Has("SOKOL_GLCORE33")

(* C4: SOKOL_LOG is defined if and only if _WIN32 is defined, and when        *)
(* defined SOKOL_LOG(msg) expands to OutputDebugStringA(msg).                *)
C4_LogIffWin32 ==
    Done => /\ Has("SOKOL_LOG") <=> Target("_WIN32")
            /\ \A m \in macros : m.name = "SOKOL_LOG" =>
                 /\ Len(m.params) = 1
                 /\ \A a \in LogArgs :
                      Expand(m, <<a>>) = <<"OutputDebugStringA", "(", a, ")">>

C4_Witness ==
    Done /\ Target("_WIN32") /\ Target("__ANDROID__") /\ Has("SOKOL_LOG")

(* C5: SOKOL_NO_ENTRY is defined if and only if __ANDROID__ is not defined,  *)
(* whatever the other two identifiers are.                                   *)
C5_NoEntryIffNotAndroid ==
    Done => (Has("SOKOL_NO_ENTRY") <=> ~Target("__ANDROID__"))

C5_Witness ==
    Done /\ ~Target("__ANDROID__") /\ Target("__APPLE__") /\ Has("SOKOL_NO_ENTRY")

(* C6: TargetConditionals.h is included if and only if __APPLE__ is          *)
(* defined, for every combination of _WIN32 and __ANDROID__, and no other    *)
(* header is included.                                                       *)
C6_IncludeIffApple ==
    /\ included \subseteq {"TargetConditionals.h"}
    /\ ~Target("__APPLE__") => included = {}
    /\ Done => (("TargetConditionals.h" \in included) <=> Target("__APPLE__"))

C6_Witness ==
    /\ Done /\ Target("__APPLE__") /\ Target("__ANDROID__") /\ ~Target("_WIN32")
    /\ "TargetConditionals.h" \in included

(* C7: the directives of the file only add definitions of the six SOKOL_     *)
(* macros: no other macro is defined, none is undefined, each of the six is  *)
(* defined at most once, and a definition once made is never changed or      *)
(* removed by a later line.                                                  *)
C7_FrameState ==
    /\ predef \subseteq macros
    /\ \A m \in macros \ predef : m.name \in SokolMacros
    /\ BagToSet(ndefs) \subseteq SokolMacros
    /\ \A n \in BagToSet(ndefs) : CopiesIn(n, ndefs) <= 1

C8_Win32Precedence ==
    (Done /\ Target("_WIN32") /\ Target("__APPLE__"))
        => /\ Has("SOKOL_D3D11") /\ Has("SOKOL_WIN32_FORCE_MAIN") /\ Has("SOKOL_LOG")
           /\ ~Has("SOKOL_METAL")
           /\ "TargetConditionals.h" \in included

C8_Witness ==
    /\ Done /\ Target("_WIN32") /\ Target("__APPLE__")
    /\ "TargetConditionals.h" \in included /\ ~Has("SOKOL_METAL")

(* C9: inputs that differ only in __ANDROID__ get the same backend macro,    *)
(* SOKOL_WIN32_FORCE_MAIN, SOKOL_LOG and inclusion; inputs that differ only  *)
(* in _WIN32 or __APPLE__ agree on SOKOL_NO_ENTRY; an Android target with    *)
(* neither _WIN32 nor __APPLE__ gets SOKOL_GLCORE33 and no SOKOL_NO_ENTRY.   *)
C9_Independence ==
    Done =>
      /\ \A other \in Inputs :
           LET r == Preprocess(Start(other)) IN
             /\ SameOn(predef, other, {"_WIN32", "__APPLE__"})
                  => BackendView(r) = BackendView(S)
             /\ SameOn(predef, other, {"__ANDROID__"})
                  => (Defined(r, "SOKOL_NO_ENTRY") <=> Has("SOKOL_NO_ENTRY"))
      /\ (Target("__ANDROID__") /\ ~Target("_WIN32") /\ ~Target("__APPLE__"))
           => (Has("SOKOL_GLCORE33") /\ ~Has("SOKOL_NO_ENTRY"))

C9_Witness ==
    /\ Done /\ Target("__ANDROID__") /\ ~Target("_WIN32") /\ ~Target("__APPLE__")
    /\ Has("SOKOL_GLCORE33") /\ ~Has("SOKOL_NO_ENTRY")

(* C10: SOKOL_WIN32_FORCE_MAIN, SOKOL_D3D11 and SOKOL_LOG are defined        *)
(* together or not at all, and never alongside SOKOL_METAL or                *)
(* SOKOL_GLCORE33.                                                           *)
C10_Win32MacrosTogether ==
    Done =>
      /\ Has("SOKOL_WIN32_FORCE_MAIN") <=> Has("SOKOL_D3D11")
      /\ Has("SOKOL_D3D11") <=> Has("SOKOL_LOG")
      /\ (Has("SOKOL_WIN32_FORCE_MAIN") \/ Has("SOKOL_D3D11") \/ Has("SOKOL_LOG"))
           => (~Has("SOKOL_METAL") /\ ~Has("SOKOL_GLCORE33"))

C10_Witness ==
    /\ Done /\ Target("_WIN32") /\ ~Target("__APPLE__") /\ ~Target("__ANDROID__")
    /\ Has("SOKOL_WIN32_FORCE_MAIN") /\ Has("SOKOL_D3D11") /\ Has("SOKOL_LOG")

====
